---- MODULE Spec2Model ----
(***************************************************************************)
(* Control flow of the VALL-E AR+NAR models: the autoregressive decode     *)
(* loops of AR_NAR.forward (v1) and AR_NAR_V2.forward_ar (v2).             *)
(* The sequence model and the sampler are opaque collaborators: what they  *)
(* return is a nondeterministic input of every step.                       *)
(***************************************************************************)
EXTENDS Integers, Sequences, FiniteSets, TLC

\* ---------------------------------------------------------------- bounds
MaxBatch == 2
MaxSteps == 3
MaxCausal == 2
MaxBeam == 2
NCodes == 1
NRespLevels == 2
\* batch_size * max_steps * levels of one AR call
MaxCells == 8
\* forward_ar_len runs trange(10); the model explores this many iterations
LenMaxSteps == 3
\* self.n_resp_levels of a model in training
TrainLevels == 3
\* timesteps of a ground-truth response
TrainLen == 2
\* segments of a prompt given as a list
MaxSegs == 2
\* masked-NAR: the configured number of denoising steps is 0 .. MaxNarSteps
MaxNarSteps == 4
\* masked-NAR: batch_size * canvas length
MaxCanvas == 3
\* masked-NAR: 1 - probability of the chosen token takes the values 0 .. ConfMax
ConfMax == 1
\* NAR level loop: self.n_max_levels - 1, and the largest max_levels passed
MaxNarLevels == 3

\* ------------------------------------------------------------- constants
Codes == 0 .. (NCodes - 1)
StopToken == NCodes
MaskToken == NCodes + 1
Tokens == Codes \cup {StopToken}

Max(a, b) == IF a >= b THEN a ELSE b
Min(a, b) == IF a <= b THEN a ELSE b

\* clamp(n, lo, hi) of ar_nar.py
clamp(x, lo, hi) == Max(lo, Min(x, hi))

VARIABLES
    pc,                 \* position of the running call
    variant,            \* "v1" (AR_NAR), "v2" (AR_NAR_V2) or "len" (forward_ar_len)
    batch_size,
    \* --- AR decode loops
    causal_size,        \* self.causal_size
    max_steps,          \* max_steps (v1) / max_duration (v2)
    sampling_beam_width,
    sampling_mirostat_tau,
    cfg_strength,       \* v2 only, in tenths
    sequence_list,      \* per item: the rows appended so far
    stopped,            \* per item: stop flag
    mirostat,           \* per item a reference to a state record; << >> is None
    n,                  \* iterations of the loop performed
    invocations,        \* conditional invocations of the sequence model
    null_invocations,   \* null-conditioned invocations of the sequence model
    sampler_logits,     \* which logits the last sampler call received
    emitted,            \* per item: the rows the sampler has produced
    lengths,            \* forward_ar_len: the returned integers
    state,              \* the carry-over state held by the loop: 0 is None, k the
                        \* state returned by model invocation k
    state_in,           \* the state the last model invocation received
    lang_list,          \* << >> stands for None
    tone_list,          \* << >> stands for None
    records,            \* the mirostat state records, by reference
    \* --- NAR level loop of AR_NAR.forward
    prev_list,          \* per item: the levels resolved so far
    max_levels,
    n_levels,           \* level count of the responses as passed
    \* --- training-target builder
    task_list,
    phns_list,
    text_list,
    proms_list,
    resps_list,
    quant_levels,
    timesteps,
    prom,               \* v1: the loop variable of line 118, which outlives its loop
    idx,                \* index of the item the validation loop works on
    quant_lo,           \* quant_level_range[0]
    rvq_levels_p,       \* the configured level policy
    p_rvq_levels,       \* the list random.choice draws the levels from
    masking_train_p,    \* in tenths
    predict_causally,
    drawn,              \* the levels random.choice returned
    in_proms,           \* the caller's prompts as passed
    in_resps,           \* the caller's responses as passed
    cfg_draws,          \* v2, per item processed: the three random draws of lines 196-203
    caller,             \* what the caller's lists and tensors hold now
    token_dropout_error,        \* in tenths
    token_dropout_rvq_levels,   \* << lo, hi >>
    \* --- masked-NAR denoising loop
    len_list,           \* canvas lengths, after the clamp of line 286
    scores,             \* per item and position: the confidence score (sum over levels)
    is_masked,          \* per item: the <<position, level>> pairs masked at the last invocation
    denoise_start,      \* in twelfths
    denoise_end,        \* in twelfths
    nar_steps,          \* the max_steps the caller configured
    remasking,
    minimum_cfg_strength,   \* in tenths
    timestep,           \* of the last iteration, in twelfths
    annealed_sampling,
    temperature,        \* in tenths
    sampling_temperature,   \* of the last iteration, in tenths of twelfths
    sampling_cfg,       \* of the last iteration, in tenths of twelfths
    fuse_strength,      \* the strength the last cfg_logits call received, in tenths of twelfths
    \* --- dispatch of forward()
    training,           \* "None", "True" or "False"
    phns_given,         \* phns_list is not None
    resps_given,        \* "None", "full" (n_resp_levels levels) or "partial"
    len_given,          \* len_list is not None
    route,              \* the branch forward() took
    \* --- lora.Linear
    lora,               \* the layer: weight, lora_A, lora_B, merged, training, result
    lora_log,           \* the base weight and the additions / subtractions performed
    \* --- trainer.train
    tn                  \* the locals of train(), the engines' global step, stdin

callVars == << pc, variant, batch_size >>
arVars == << causal_size, max_steps, sampling_beam_width,
             sampling_mirostat_tau, cfg_strength, sequence_list, stopped, mirostat,
             n, invocations, null_invocations, sampler_logits, emitted, lengths >>
arExtra == << state, state_in, lang_list, tone_list, records >>
narVars == << prev_list, max_levels, n_levels >>
trVars == << task_list, phns_list, text_list, proms_list, resps_list, quant_levels,
             timesteps, prom, idx, quant_lo, rvq_levels_p, p_rvq_levels,
                    masking_train_p,
             predict_causally, drawn, in_proms, in_resps,
             cfg_draws, caller, token_dropout_error, token_dropout_rvq_levels >>

nmVars == << len_list, scores, is_masked, denoise_start, denoise_end, nar_steps,
             remasking, minimum_cfg_strength, timestep, annealed_sampling,
             temperature, sampling_temperature, sampling_cfg, fuse_strength >>

dpVars == << training, phns_given, resps_given, len_given, route >>

libVars == << lora, lora_log, tn >>

vars == << callVars, arVars, arExtra, narVars, trVars, nmVars, dpVars, libVars >>

\* the locals of the builder and of the masked-NAR loop that no AR loop shares
trLocals == << timesteps, prom, idx, quant_lo, rvq_levels_p, p_rvq_levels,
               masking_train_p, predict_causally, drawn, in_proms, in_resps,
               cfg_draws, caller, token_dropout_error, token_dropout_rvq_levels >>
nmLocals == << len_list, is_masked, denoise_start, denoise_end, nar_steps,
               remasking, minimum_cfg_strength, timestep, annealed_sampling,
               temperature, sampling_temperature, sampling_cfg, fuse_strength >>
\* what the AR loops of forward() / forward_ar leave alone
arOther == << trLocals, nmLocals, dpVars, narVars, libVars >>
\* the per-item lists that the AR loops hand to self.inputs
arInputs == << task_list, phns_list, text_list, proms_list, resps_list, quant_levels,
               lang_list, tone_list >>
\* everything but the state of forward_ar_len / of the builder
notAR == << arExtra, narVars, trVars, nmVars, dpVars, libVars >>
notTrain == << arVars, arExtra, narVars, nmVars, dpVars, libVars >>
\* what the masked-NAR loop leaves alone
notNar == << causal_size, sampling_beam_width, sampling_mirostat_tau, sequence_list,
             stopped, mirostat, emitted, lengths, arExtra, narVars,
             task_list, phns_list, text_list, proms_list, quant_levels,
             timesteps, prom, idx, quant_lo, rvq_levels_p, p_rvq_levels,
                    masking_train_p,
             predict_causally, drawn, in_proms, in_resps,
             cfg_draws, caller, token_dropout_error, token_dropout_rvq_levels, dpVars, libVars >>

\* --------------------------------------------------------------- helpers
\* text_task of ar_nar_v2.py
TextTasks == {"stt", "phn", "un-phn"}
\* text_stop_token of forward_ar
TextStopToken == 2

\* a per-item input as the caller passed it, or as the loop rebuilt it from
\* sequence_list
Given == [src |-> "caller", rows |-> << >>]
Fed(rows) == [src |-> "sequence", rows |-> rows]

\* the ids the sampler can return for an item: a text task decodes text tokens
TaskTokens(task) == IF task \in TextTasks THEN Tokens \cup {TextStopToken} ELSE Tokens
TaskChunks(cs, L, task) == [1 .. cs -> [1 .. L -> TaskTokens(task)]]

\* lines 248-257 of ar_nar.py: forward() is unpacked into (logits, state) only
\* when state is not None; k is the invocation that returns the state
StateAfterV1(st, k) == IF st # 0 THEN k ELSE st
\* line 634 of ar_nar_v2.py: logits, state = output.logits, output.state
StateAfterV2(st, k) == k

\* [ {...} ] * batch_size: batch_size references to one record
SharedRefs(bs) == [i \in 1 .. bs |-> 1]
InitialRecord == [token |-> << >>]
\* the sampler updates the record of each item in place, item by item
RECURSIVE WriteAll(_, _, _, _)
WriteAll(heap, refs, raw, i) ==
    IF i > Len(refs) THEN heap
    ELSE WriteAll([heap EXCEPT ![refs[i]] = [token |-> raw[i]]], refs, raw, i + 1)

\* lines 311-312 of ar_nar.py: if sampling_beam_width: [ sequence_list[0] ]
PickLast(seqs, w) == IF w # 0 THEN << seqs[Len(seqs)] >> ELSE seqs
PickBeam(seqs, w) == IF w # 0 THEN << seqs[1] >> ELSE seqs
\* number of levels of a row of the AR working sequence
ARLevels(v) == IF v = "v1" THEN 1 ELSE NRespLevels

\* what one sampler call yields for one item: causal_size rows
Chunks(cs, L) == [1 .. cs -> [1 .. L -> Tokens]]

\* "stop_token in ri" / "audio_stop_token in token" for some level
HasStop(rows) == \E t \in 1 .. Len(rows) : \E l \in DOMAIN rows[t] : rows[t][l] = StopToken

\* "stopped.all().item()"
AnyStopped(st) == \E i \in DOMAIN st : st[i]
AllStopped(st) == \A i \in DOMAIN st : st[i]

\* "if cfg_strength > 0"
CfgEnabledAtZero(strength) == strength >= 0
CfgEnabled(strength) == strength > 0

\* range(max_steps // max(1, self.causal_size))
Iterations == max_steps \div Max(1, causal_size)

\* [ x ] * k for a one-element list
Replicate(x, k) == [i \in 1 .. k |-> x]

\* Base._prune: truncate at the first stop token, keep everything if none
StopRows(rows) == {t \in 1 .. Len(rows) : \E l \in DOMAIN rows[t] : rows[t][l] = StopToken}
MinOf(S) == CHOOSE x \in S : \A y \in S : x <= y
_prune(rows) ==
    IF StopRows(rows) = {} THEN rows ELSE SubSeq(rows, 1, MinOf(StopRows(rows)) - 1)

\* forward_ar, lines 661-668: index = (l == stop).nonzero(); index[:, 0].min()
NonZero(rows) == {<<t, l>> \in (1 .. Len(rows)) \X (1 .. NRespLevels) :
                    l \in DOMAIN rows[t] /\ rows[t][l] = StopToken}
PruneV2DropLast(rows) ==
    IF NonZero(rows) = {} THEN SubSeq(rows, 1, Len(rows) - 1)
    ELSE SubSeq(rows, 1, MinOf({p[1] : p \in NonZero(rows)}) - 1)
PruneV2Level0(rows) ==
    IF {p \in NonZero(rows) : p[2] = 1} = {} THEN rows
    ELSE SubSeq(rows, 1, MinOf({p[1] : p \in {q \in NonZero(rows) : q[2] = 1}}) - 1)
PruneV2(rows) ==
    IF NonZero(rows) = {} THEN rows
    ELSE SubSeq(rows, 1, MinOf({p[1] : p \in NonZero(rows)}) - 1)

\* ------------------------------------------------------------------ Init
\* the loop was called directly
NoDispatch ==
    /\ training = "None" /\ phns_given = FALSE /\ resps_given = "None"
    /\ len_given = FALSE /\ route = "none"

\* no masked-NAR call is in progress
NarLocalsIdle ==
    /\ len_list = << >> /\ is_masked = << >>
    /\ denoise_start = 0 /\ denoise_end = 0 /\ nar_steps = 0
    /\ remasking = FALSE /\ minimum_cfg_strength = 0 /\ timestep = 0
    /\ annealed_sampling = FALSE /\ temperature = 0 /\ sampling_temperature = 0
    /\ sampling_cfg = 0 /\ fuse_strength = 0
NarIdle == NarLocalsIdle /\ scores = << >>

\* no training call is in progress
NoCaller == [phns |-> << >>, proms |-> << >>, resps |-> << >>]
TrainLocalsIdle ==
    /\ timesteps = << >> /\ prom = [kind |-> "unbound"] /\ idx = 0
    /\ quant_lo = 0 /\ rvq_levels_p = [kind |-> "str", name |-> "equal"] /\ masking_train_p = 0
    /\ p_rvq_levels = << >>
    /\ predict_causally = FALSE /\ drawn = << >>
    /\ in_proms = << >> /\ in_resps = << >>
    /\ cfg_draws = << >> /\ caller = NoCaller
    /\ token_dropout_error = 0 /\ token_dropout_rvq_levels = << 0, 0 >>
TrainCoreIdle ==
    /\ TrainLocalsIdle
    /\ phns_list = << >> /\ text_list = << >>
    /\ proms_list = << >> /\ quant_levels = << >>
TrainRestIdle == TrainCoreIdle /\ task_list = << >>
TrainIdle == TrainRestIdle /\ resps_list = << >>

\* no AR loop is in progress
\* no lora.Linear and no trainer is modelled
LibIdle == lora = << >> /\ lora_log = << >> /\ tn = << >>
\* no NAR level loop is in progress
NarV1Idle == prev_list = << >> /\ max_levels = 0 /\ n_levels = 0
ARExtraIdle ==
    /\ state = 0 /\ state_in = 0 /\ lang_list = << >> /\ tone_list = << >>
    /\ records = << >>
ARLoopIdle ==
    /\ causal_size = 1 /\ sampling_beam_width = 0 /\ sampling_mirostat_tau = 0
    /\ sequence_list = << >> /\ stopped = << >> /\ mirostat = << >>
    /\ ARExtraIdle
    /\ emitted = << >> /\ lengths = "None"
ARIdle ==
    /\ ARLoopIdle
    /\ max_steps = 0 /\ cfg_strength = 0 /\ n = 0 /\ invocations = 0
    /\ null_invocations = 0 /\ sampler_logits = "none"

InitAR ==
    /\ NoDispatch
    /\ NarV1Idle
    /\ LibIdle
    /\ TrainLocalsIdle
    /\ NarLocalsIdle
    /\ pc = "loop"
    /\ variant \in {"v1", "v2"}
    /\ causal_size \in 1 .. MaxCausal
    /\ max_steps \in 0 .. MaxSteps
    /\ batch_size \in 1 .. MaxBatch
    /\ sampling_beam_width \in 0 .. MaxBeam
    /\ sampling_mirostat_tau \in {0, 1}
    /\ cfg_strength \in {-10, 0, 30}
    /\ variant = "v2" => sampling_beam_width = 0
    /\ variant = "v1" => cfg_strength = 0
    /\ (sampling_beam_width > 0 /\ sampling_mirostat_tau = 0) => batch_size = 1
    /\ batch_size * max_steps * ARLevels(variant) <= MaxCells
    /\ lengths = "None"
    \* lines 65-66 of ar_nar.py: a missing task_list becomes "tts" for every item
    /\ task_list \in [1 .. batch_size -> IF variant = "v2" THEN {"tts", "stt"} ELSE {"tts"}]
    /\ phns_list = [i \in 1 .. batch_size |-> Given]
    /\ text_list \in {[i \in 1 .. batch_size |-> Given]}
                     \cup (IF variant = "v2" THEN {<< >>} ELSE {})
    /\ proms_list = [i \in 1 .. batch_size |-> Given]
    /\ resps_list = [i \in 1 .. batch_size |-> Given]
    /\ lang_list \in {[i \in 1 .. batch_size |-> Given]}
                     \cup (IF variant = "v1" THEN {<< >>} ELSE {})
    /\ tone_list \in {[i \in 1 .. batch_size |-> Given]}
                     \cup (IF variant = "v1" THEN {<< >>} ELSE {})
    /\ quant_levels = << >>
    /\ sequence_list = [i \in 1 .. batch_size |-> << >>]
    /\ stopped = [i \in 1 .. batch_size |-> FALSE]
    /\ state = 0
    /\ state_in = 0
    /\ mirostat = IF sampling_mirostat_tau > 0 THEN SharedRefs(batch_size) ELSE << >>
    /\ records = IF sampling_mirostat_tau > 0 THEN << InitialRecord >> ELSE << >>
    /\ scores = [i \in 1 .. sampling_beam_width |-> 1]
    /\ n = 0
    /\ invocations = 0
    /\ null_invocations = 0
    /\ sampler_logits = "none"
    /\ emitted = [i \in 1 .. batch_size |-> << >>]

\* --------------------------------------------------------------- actions
\* one iteration of "for n in trange(max_steps // max(1, self.causal_size))"
\* of AR_NAR.forward
StepV1 ==
    /\ pc = "loop"
    /\ variant = "v1"
    /\ n < Iterations
    /\ quant_levels' = [i \in 1 .. Max(batch_size, sampling_beam_width) |-> 0]
    /\ resps_list' = [i \in 1 .. batch_size |-> Fed(sequence_list[i])]
    /\ state_in' = state
    /\ state' = StateAfterV1(state, n + 1)
    /\ LET expand == mirostat = << >> /\ sampling_beam_width > 0 /\ batch_size = 1
           beam == mirostat = << >> /\ sampling_beam_width > 0
           bs == IF expand THEN sampling_beam_width ELSE batch_size
           seqs == IF expand THEN Replicate(sequence_list[1], bs) ELSE sequence_list
           emit == IF expand THEN Replicate(emitted[1], bs) ELSE emitted
           stop0 == IF expand THEN [i \in 1 .. bs |-> FALSE] ELSE stopped
       IN \E raw \in [1 .. bs -> Chunks(causal_size, 1)], inplace \in BOOLEAN,
             s \in [1 .. sampling_beam_width -> 0 .. 1] :
            \* what Base.sample does with the records: update them in place or
            \* return new ones
            LET heap == IF mirostat = << >> THEN records
                        ELSE IF inplace THEN WriteAll(records, mirostat, raw, 1)
                        ELSE [i \in 1 .. bs |-> [token |-> raw[i]]]
                refs == IF mirostat = << >> \/ inplace THEN mirostat
                        ELSE [i \in 1 .. bs |-> i]
                \* r = [ state["token"] for state in mirostat ]
                r == IF mirostat = << >> THEN raw
                     ELSE [i \in 1 .. bs |-> heap[refs[i]].token]
                stop1 == [i \in 1 .. bs |-> stop0[i] \/ HasStop(r[i])]
            IN /\ (mirostat = << >>) => ~inplace
               /\ (~beam) => \A i \in DOMAIN s : s[i] = 0
               /\ records' = heap
               /\ mirostat' = refs
               /\ scores' = IF beam THEN [i \in DOMAIN scores |-> scores[i] + s[i]]
                            ELSE scores
               /\ batch_size' = bs
               /\ text_list' = IF expand THEN Replicate(text_list[1], bs) ELSE text_list
               /\ proms_list' = IF expand THEN Replicate(proms_list[1], bs) ELSE proms_list
               /\ sequence_list' = [i \in 1 .. bs |-> seqs[i] \o r[i]]
               /\ emitted' = [i \in 1 .. bs |-> emit[i] \o r[i]]
               /\ stopped' = stop1
               /\ pc' = IF AllStopped(stop1) THEN "prune" ELSE "loop"
    /\ n' = n + 1
    /\ invocations' = invocations + 1
    /\ sampler_logits' = "conditional"
    /\ UNCHANGED << variant, causal_size, max_steps, sampling_beam_width,
                    sampling_mirostat_tau, cfg_strength, null_invocations, lengths >>
    /\ UNCHANGED << task_list, phns_list, lang_list, tone_list >>
    /\ UNCHANGED arOther

\* one iteration of the loop of AR_NAR_V2.forward_ar
StepV2 ==
    /\ pc = "loop"
    /\ variant = "v2"
    /\ n < Iterations
    \* lines 587-591: the fields the partial sequence goes back through
    /\ text_list' = IF text_list # << >>
                    THEN [i \in 1 .. batch_size |->
                            IF task_list[i] \in TextTasks THEN Fed(sequence_list[i])
                            ELSE text_list[i]]
                    ELSE text_list
    /\ phns_list' = IF text_list # << >> THEN phns_list
                    ELSE [i \in 1 .. batch_size |->
                            IF task_list[i] \in TextTasks THEN Fed(sequence_list[i])
                            ELSE phns_list[i]]
    /\ resps_list' = [i \in 1 .. batch_size |->
                        IF task_list[i] \notin TextTasks THEN Fed(sequence_list[i])
                        ELSE resps_list[i]]
    /\ quant_levels' = [i \in 1 .. Max(batch_size, sampling_beam_width) |-> 0]
    /\ state_in' = state
    /\ state' = StateAfterV2(state, n + 1)
    /\ \E r \in [1 .. batch_size -> TaskChunks(causal_size, NRespLevels, "stt")] :
         LET stop1 == [i \in 1 .. batch_size |-> stopped[i] \/ HasStop(r[i])]
         IN /\ \A i \in 1 .. batch_size :
                 r[i] \in TaskChunks(causal_size, NRespLevels, task_list[i])
            /\ sequence_list' = [i \in 1 .. batch_size |-> sequence_list[i] \o r[i]]
            /\ emitted' = [i \in 1 .. batch_size |-> emitted[i] \o r[i]]
            /\ stopped' = stop1
            /\ pc' = IF AllStopped(stop1) THEN "prune" ELSE "loop"
    /\ n' = n + 1
    /\ invocations' = invocations + 1
    /\ null_invocations' = IF CfgEnabled(cfg_strength) THEN null_invocations + 1
                         ELSE null_invocations
    \* line 634 rebinds logits to output.logits after the fusion of line 632
    /\ sampler_logits' = "conditional"
    /\ UNCHANGED << variant, causal_size, max_steps, batch_size, sampling_beam_width,
                    sampling_mirostat_tau, cfg_strength, mirostat, lengths >>
    /\ UNCHANGED << task_list, proms_list, lang_list, tone_list, records, scores >>
    /\ UNCHANGED arOther

\* the range of the for loop is exhausted
LoopEnd ==
    /\ pc = "loop"
    /\ variant \in {"v1", "v2"}
    /\ n >= Iterations
    /\ pc' = "prune"
    /\ UNCHANGED << variant, causal_size, max_steps, batch_size, sampling_beam_width,
                    sampling_mirostat_tau, cfg_strength, sequence_list, stopped, mirostat,
                    n, invocations, null_invocations, sampler_logits, emitted, lengths >>
    /\ UNCHANGED << arInputs, state, state_in, records, scores >>
    /\ UNCHANGED arOther

\* lines 309-315 of ar_nar.py
ReturnV1 ==
    /\ pc = "prune"
    /\ variant = "v1"
    /\ LET kept == PickBeam(sequence_list, sampling_beam_width)
       IN sequence_list' = [i \in DOMAIN kept |-> _prune(kept[i])]
    /\ pc' = "done"
    /\ UNCHANGED << variant, causal_size, max_steps, batch_size, sampling_beam_width,
                    sampling_mirostat_tau, cfg_strength, stopped, mirostat,
                    n, invocations, null_invocations, sampler_logits, emitted, lengths >>
    /\ UNCHANGED << arInputs, state, state_in, records, scores >>
    /\ UNCHANGED arOther

\* lines 661-670 of ar_nar_v2.py
ReturnV2 ==
    /\ pc = "prune"
    /\ variant = "v2"
    /\ sequence_list' = [i \in DOMAIN sequence_list |-> PruneV2(sequence_list[i])]
    /\ pc' = "done"
    /\ UNCHANGED << variant, causal_size, max_steps, batch_size, sampling_beam_width,
                    sampling_mirostat_tau, cfg_strength, stopped, mirostat,
                    n, invocations, null_invocations, sampler_logits, emitted, lengths >>
    /\ UNCHANGED << arInputs, state, state_in, records, scores >>
    /\ UNCHANGED arOther

\* ------------------------------------------- training-target builder
TrainTasks == {"tts", "stt", "len"}

NoneProm == [kind |-> "none"]
TensorProm(P) == [kind |-> "tensor", levels |-> P]
Segments == {TensorProm(P) : P \in 1 .. TrainLevels} \cup {[kind |-> "str"]}
ListProm(segs) == [kind |-> "list", segs |-> segs]
\* proms could be a Tensor, list[Tensor], or None
PromShapes ==
    {NoneProm} \cup {TensorProm(P) : P \in 1 .. TrainLevels}
    \cup {ListProm(segs) : segs \in UNION {[1 .. k -> Segments] : k \in 0 .. MaxSegs}}

\* a ground-truth response of L levels: TrainLen rows of codes
Resp(L) == [t \in 1 .. TrainLen |-> [l \in 1 .. L |-> 0]]
\* r.shape[-1]
Levels(r) == Len(r[1])
\* r[..., :l+1]
Trim(r, l) == [t \in 1 .. Len(r) |-> SubSeq(r[t], 1, Min(l + 1, Len(r[t])))]
\* torch.cat([ resps, stop_sequence ]) with a stop row of k levels
StopRow(k) == [l \in 1 .. k |-> StopToken]

\* lines 90-98 of ar_nar.py / 102-121 of ar_nar_v2.py: the list random.choice draws from
Range(lo, hi) == [k \in 1 .. (hi - lo) |-> lo + k - 1]
RECURSIVE Triangular(_, _)
Triangular(lo, hi) ==
    IF lo >= hi THEN << >> ELSE [k \in 1 .. (hi - lo) |-> lo] \o Triangular(lo + 1, hi)
StrPolicy(name) == [kind |-> "str", name |-> name]
ListPolicy(items) == [kind |-> "list", items |-> items]
\* p_rvq_levels = p_rvq_levels if isinstance(p_rvq_levels, list) else []
Normalise(policy) == IF policy.kind = "list" THEN policy ELSE ListPolicy(<< >>)
\* p_rvq_levels == "equal"
IsEqual(p) == p.kind = "str" /\ p.name = "equal"
LevelList(policy, lo, hi) ==
    LET p == Normalise(policy)
    IN IF p.items # << >> THEN p.items
       ELSE IF IsEqual(p) THEN Range(lo, hi)
       ELSE Triangular(lo, hi)
Elements(seq) == {seq[k] : k \in DOMAIN seq}

\* "random.random() < p" for p in tenths
Bernoulli(p) == IF p <= 0 THEN {FALSE} ELSE IF p >= 10 THEN {TRUE} ELSE BOOLEAN

InitTrain ==
    /\ NoDispatch
    /\ NarV1Idle
    /\ LibIdle
    /\ ARIdle
    /\ NarIdle
    /\ pc = "draw"
    /\ variant \in {"v1", "v2"}
    /\ batch_size \in 1 .. MaxBatch
    /\ variant = "v2" => batch_size = 1
    /\ task_list \in [1 .. batch_size -> IF variant = "v1" THEN {"tts"} ELSE TrainTasks]
    /\ phns_list = [k \in 1 .. batch_size |-> "phns"]
    /\ text_list \in [1 .. batch_size -> IF variant = "v1" THEN {"text"} ELSE {"None", "text"}]
    /\ in_proms \in [1 .. batch_size -> PromShapes]
    /\ proms_list = in_proms
    /\ in_resps \in [1 .. batch_size -> {Resp(L) : L \in 1 .. TrainLevels}]
    /\ resps_list = in_resps
    /\ quant_levels = << >>
    /\ timesteps = << >>
    /\ prom = [kind |-> "unbound"]
    /\ idx = 0
    /\ quant_lo \in {0, 1}
    /\ rvq_levels_p \in {StrPolicy("equal"), StrPolicy("other"), ListPolicy(<< 0, 1, 1 >>)}
    /\ p_rvq_levels = << >>
    /\ masking_train_p \in IF variant = "v1" THEN {0} ELSE {0, 5, 10}
    /\ predict_causally \in IF variant = "v1" THEN {FALSE} ELSE BOOLEAN
    /\ drawn = << >>
    /\ cfg_draws = << >>
    /\ caller = [phns |-> phns_list, proms |-> in_proms, resps |-> in_resps]
    /\ token_dropout_error = 0
    /\ token_dropout_rvq_levels = << 0, TrainLevels - 1 >>

\* lines 101-105 of ar_nar.py: draw the levels and trim the responses
DrawV1 ==
    /\ pc = "draw"
    /\ variant = "v1"
    /\ p_rvq_levels' = LevelList(rvq_levels_p, quant_lo, TrainLevels)
    /\ \E q \in [1 .. batch_size -> Elements(LevelList(rvq_levels_p, quant_lo, TrainLevels))] :
         /\ quant_levels' = q
         /\ drawn' = q
         /\ resps_list' = [k \in 1 .. batch_size |-> Trim(resps_list[k], q[k])]
    /\ idx' = 1
    /\ pc' = "validate"
    /\ UNCHANGED << variant, batch_size, task_list, phns_list, text_list, proms_list,
                    timesteps, prom, quant_lo, rvq_levels_p, masking_train_p,
                    predict_causally, in_proms, in_resps,
                    cfg_draws, caller, token_dropout_error, token_dropout_rvq_levels >>
    /\ UNCHANGED notTrain

\* lines 124-142 of ar_nar_v2.py: draw the levels, then the timesteps
DrawV2 ==
    /\ pc = "draw"
    /\ variant = "v2"
    /\ p_rvq_levels' = LevelList(rvq_levels_p, quant_lo, TrainLevels)
    /\ \E q \in [1 .. batch_size -> Elements(LevelList(rvq_levels_p, quant_lo, TrainLevels))] :
       \E m \in [1 .. batch_size -> Bernoulli(masking_train_p)] :
         /\ drawn' = q
         /\ quant_levels' = [k \in 1 .. batch_size |->
                               IF task_list[k] \in TextTasks THEN 0 ELSE q[k]]
         /\ timesteps' = [k \in 1 .. batch_size |->
                            IF task_list[k] \notin TextTasks /\ 0 <= q[k] /\ q[k] <= TrainLevels
                               /\ m[k]
                            THEN "t" ELSE "None"]
    /\ idx' = 1
    /\ pc' = "validate"
    /\ UNCHANGED << variant, batch_size, task_list, phns_list, text_list, proms_list,
                    resps_list, prom, quant_lo, rvq_levels_p, masking_train_p,
                    predict_causally, in_proms, in_resps,
                    cfg_draws, caller, token_dropout_error, token_dropout_rvq_levels >>
    /\ UNCHANGED notTrain

\* lines 108-123 of ar_nar.py: quant_levels[i] after the caps, or "raise"
LastOf(segs, before) == IF segs = << >> THEN before ELSE segs[Len(segs)]
Capped(q) == [raised |-> FALSE, q |-> q]
Raised == [raised |-> TRUE, q |-> 0]
CapV1(q, resps, proms, stale) ==
    LET q1 == IF q >= Levels(resps) THEN Levels(resps) - 1 ELSE q
    IN IF proms.kind = "tensor"
       THEN Capped(IF q >= proms.levels THEN proms.levels - 1 ELSE q1)
       ELSE IF proms.kind = "list"
       THEN LET last == LastOf(proms.segs, stale)
            IN IF last.kind # "tensor" THEN Raised
               ELSE Capped(IF q >= last.levels THEN last.levels - 1 ELSE q1)
       ELSE Capped(q1)

\* clamp(token + offset, 1, 1022) of line 134
TokenFloor == 1
TokenCeil == 1022
Perturbed(token, offset) == clamp(token + offset, TokenFloor, TokenCeil)

\* line 126: token dropout applies to the item
DropoutApplies(quant_level) ==
    /\ token_dropout_error > 0
    /\ token_dropout_rvq_levels[1] <= quant_level
    /\ quant_level <= token_dropout_rvq_levels[2]

\* the cells the loops of lines 128-129 visit before resps[t, l] fails or they end
DropoutCells(resps, quant_level) ==
    IF DropoutApplies(quant_level)
    THEN (1 .. Len(resps)) \X (1 .. Min(quant_level, Levels(resps)))
    ELSE {}
\* resps[t, l] with l >= resps.shape[-1]: IndexError
DropoutRaises(resps, quant_level) ==
    DropoutApplies(quant_level) /\ Len(resps) > 0 /\ quant_level > Levels(resps)

\* lines 130-134: offsets[c] is 0 (no dropout at the cell), 1 or -1
Dropout(tensor, cells, offsets) ==
    [t \in DOMAIN tensor |-> [l \in DOMAIN tensor[t] |->
        IF <<t, l>> \in cells /\ offsets[<<t, l>>] # 0
        THEN Perturbed(tensor[t][l], offsets[<<t, l>>]) ELSE tensor[t][l]]]

\* one iteration of the loop of line 107 of ar_nar.py
ItemV1 ==
    /\ pc = "validate"
    /\ variant = "v1"
    /\ idx <= batch_size
    /\ LET quant_level == quant_levels[idx]
           resps == resps_list[idx]
           proms == proms_list[idx]
           capped == CapV1(quant_level, resps, proms, prom)
           cells == DropoutCells(resps, quant_level)
       IN /\ prom' = IF proms.kind = "list" THEN LastOf(proms.segs, prom) ELSE prom
          /\ IF capped.raised
             THEN /\ pc' = "raised"
                  /\ UNCHANGED << quant_levels, resps_list, idx, caller >>
             ELSE \E offsets \in [cells -> {0, 1, -1}] :
                  \* resps is a view of the caller's tensor: the writes reach both
                  LET dropped == Dropout(resps, cells, offsets)
                  IN /\ caller' = [caller EXCEPT !.resps[idx] = Dropout(@, cells, offsets)]
                     /\ IF DropoutRaises(resps, quant_level)
                        THEN /\ pc' = "raised"
                             /\ UNCHANGED << quant_levels, resps_list, idx >>
                        ELSE /\ quant_levels' = [quant_levels EXCEPT ![idx] = capped.q]
                             /\ resps_list' =
                                  [resps_list EXCEPT ![idx] =
                                     IF quant_level <= 0
                                     THEN Append(dropped, StopRow(1))
                                     ELSE dropped]
                             /\ idx' = idx + 1
                             /\ pc' = "validate"
    /\ UNCHANGED << variant, batch_size, task_list, phns_list, text_list, proms_list,
                    timesteps, quant_lo, rvq_levels_p, p_rvq_levels,
                    masking_train_p,
                    predict_causally, drawn, in_proms, in_resps,
                    cfg_draws, token_dropout_error, token_dropout_rvq_levels >>
    /\ UNCHANGED notTrain

\* lines 151-166 of ar_nar_v2.py: quant_levels[i] after the caps
RECURSIVE CapSegsV2(_, _, _)
CapSegsV2(q, segs, acc) ==
    IF segs = << >> THEN acc
    ELSE CapSegsV2(q, Tail(segs),
                   IF segs[1].kind = "tensor" /\ q >= segs[1].levels
                   THEN segs[1].levels - 1 ELSE acc)
CapV2(q, resps, proms) ==
    LET q1 == IF q >= Levels(resps) THEN Levels(resps) - 1 ELSE q
    IN IF proms.kind = "tensor"
       THEN (IF q >= proms.levels THEN proms.levels - 1 ELSE q1)
       ELSE IF proms.kind = "list" THEN CapSegsV2(q, proms.segs, q1)
       ELSE q1

\* lines 206-213: phns_list[i] after the text drop and the raw-text swap
CfgPhnsSwapWins(drop_text, swap_text, phns) ==
    IF swap_text THEN "None" ELSE IF drop_text THEN "null_text" ELSE phns
CfgPhns(drop_text, swap_text, phns) ==
    IF swap_text /\ ~drop_text THEN "None" ELSE IF drop_text THEN "null_text" ELSE phns

\* one iteration of the loop of line 150 of ar_nar_v2.py
ItemV2 ==
    /\ pc = "validate"
    /\ variant = "v2"
    /\ idx <= batch_size
    /\ LET quant_level == quant_levels[idx]
           resps == resps_list[idx]
           proms == proms_list[idx]
           task == task_list[idx]
           capped == CapV2(quant_level, resps, proms)
           cfg_item == task \notin (TextTasks \cup {"len"})
       IN /\ quant_levels' = [quant_levels EXCEPT ![idx] = IF task = "len" THEN 0 ELSE capped]
          /\ resps_list' =
               IF (timesteps[idx] = "None" \/ predict_causally) /\ task \notin TextTasks
               THEN [resps_list EXCEPT ![idx] = Append(resps, StopRow(Levels(resps)))]
               ELSE resps_list
          /\ \E prom_draw \in BOOLEAN, cond_draw \in BOOLEAN, raw_draw \in BOOLEAN :
               LET drop_audio == cfg_item /\ (prom_draw \/ cond_draw)
                   drop_text == cfg_item /\ cond_draw
                   swap_text == cfg_item /\ raw_draw /\ text_list[idx] # "None"
               IN /\ (~cfg_item) => (~prom_draw /\ ~cond_draw /\ ~raw_draw)
                  /\ cfg_draws' = Append(cfg_draws,
                                         [prom |-> prom_draw, cond |-> cond_draw, raw |-> raw_draw])
                  /\ phns_list' = [phns_list EXCEPT ![idx] = CfgPhns(drop_text, swap_text, @)]
                  /\ proms_list' = [proms_list EXCEPT ![idx] =
                                      IF drop_audio THEN NoneProm ELSE @]
          \* phns_list, proms_list and resps_list are the caller's own lists
          /\ caller' = [phns |-> phns_list', proms |-> proms_list', resps |-> resps_list']
    /\ idx' = idx + 1
    /\ UNCHANGED << pc, variant, batch_size, task_list, text_list, timesteps, prom,
                    quant_lo, rvq_levels_p, p_rvq_levels, masking_train_p, predict_causally, drawn,
                    in_proms, in_resps, token_dropout_error, token_dropout_rvq_levels >>
    /\ UNCHANGED notTrain

\* lines 142-156 of ar_nar.py / 215-231 of ar_nar_v2.py: the lists go to the model
Forward ==
    /\ pc = "validate"
    /\ idx > batch_size
    /\ pc' = "handed"
    /\ UNCHANGED << variant, batch_size >>
    /\ UNCHANGED trVars
    /\ UNCHANGED notTrain

NextTrain == DrawV1 \/ DrawV2 \/ ItemV1 \/ ItemV2 \/ Forward

SpecTrain == InitTrain /\ [][NextTrain]_vars

\* codec ids: 0 .. CodeMax
CodeMax == TokenCeil + 1
\* one v1 training item whose response holds ids at both ends of the codec range
InitDropout ==
    /\ NoDispatch
    /\ NarV1Idle
    /\ LibIdle
    /\ ARIdle
    /\ NarIdle
    /\ pc = "draw"
    /\ variant = "v1"
    /\ batch_size = 1
    /\ task_list = << "tts" >>
    /\ phns_list = << "phns" >>
    /\ text_list = << "text" >>
    /\ in_proms \in [1 .. batch_size -> {NoneProm} \cup {TensorProm(P) : P \in 1 .. TrainLevels}]
    /\ proms_list = in_proms
    /\ in_resps \in [1 .. batch_size ->
                       UNION {[1 .. TrainLen -> [1 .. L -> {0, CodeMax}]] : L \in 1 .. TrainLevels}]
    /\ resps_list = in_resps
    /\ quant_levels = << >>
    /\ timesteps = << >>
    /\ prom = [kind |-> "unbound"]
    /\ idx = 0
    /\ quant_lo = 0
    /\ rvq_levels_p = StrPolicy("equal")
    /\ p_rvq_levels = << >>
    /\ masking_train_p = 0
    /\ predict_causally = FALSE
    /\ drawn = << >>
    /\ cfg_draws = << >>
    /\ caller = [phns |-> phns_list, proms |-> in_proms, resps |-> in_resps]
    /\ token_dropout_error \in {0, 5}
    /\ token_dropout_rvq_levels \in {<< 0, TrainLevels - 1 >>, << 1, 1 >>}

NextDropout == DrawV1 \/ ItemV1 \/ Forward

SpecDropout == InitDropout /\ [][NextDropout]_vars

\* --------------------------------------- forward_nar_masked (v2)
\* min_length of line 263
MinLength == 1
\* minimum_cfg_strength of line 272, in tenths
DefaultMinimumCfg == 25

\* math.cos( timestep * math.pi * 0.5 ), times 10^6, for timestep = t / 12
CosTable == << 1000000, 991445, 965926, 923880, 866025, 793353, 707107,
               608761, 500000, 382683, 258819, 130526, 0 >>
CosScale == CosTable[1]
\* time is counted in twelfths: denoise_start and denoise_end are 0, 1/2 or 1
TimeUnit == Len(CosTable) - 1
NoiseLevels == {0, TimeUnit \div 2, TimeUnit}
NoisePRising(t) == CosTable[TimeUnit - t + 1]
NoiseP(t) == CosTable[t + 1]

\* max_steps = math.floor(max_steps * (end_noise - start_noise))
NarMaxStepsCeil(steps, start, end) == (steps * (end - start) + TimeUnit - 1) \div TimeUnit
NarMaxSteps(steps, start, end) == (steps * (end - start)) \div TimeUnit

\* torch.linspace(start_noise, end_noise, max_steps)[j], j counted from 0
Linspace(start, end, m, j) ==
    IF m = 1 THEN start ELSE start + (j * (end - start)) \div (m - 1)

\* int( noise_p * seq_len + remask_p * seq_len ) with remask_p = 1 / (max_steps * 2)
MaskCount(t, seq_len, m, remask) ==
    (NoiseP(t) * seq_len * 2 * m + (IF remask THEN CosScale * seq_len ELSE 0))
        \div (CosScale * 2 * m)

\* score.topk(k).indices: any k positions none of which scores below one left out
TopKAny(score, k) == {S \in SUBSET DOMAIN score : Cardinality(S) = k}
TopK(score, k) ==
    {S \in SUBSET DOMAIN score :
        /\ Cardinality(S) = k
        /\ \A a \in S : \A b \in (DOMAIN score) \ S : score[a] >= score[b]}

\* resp[:, l].scatter(0, indices, self.mask_token) for every level
ScatterReset(resp, indices) ==
    [t \in DOMAIN resp |-> [l \in DOMAIN resp[t] |->
        IF t \in indices THEN MaskToken ELSE 0]]
Scatter(resp, indices) ==
    [t \in DOMAIN resp |-> [l \in DOMAIN resp[t] |->
        IF t \in indices THEN MaskToken ELSE resp[t][l]]]

\* is_masked = resps == self.mask_token
IsMasked(resp, indices) ==
    {c \in (DOMAIN resp) \X (1 .. NRespLevels) : resp[c[1]][c[2]] = MaskToken}

\* what the two sampler calls of one level yield for one position:
\* the sampled id and 1 - probability of the greedy token
Samples == Codes \X (0 .. ConfMax)
\* the same with a vocabulary of two ids
SamplesWide == Tokens \X (0 .. ConfMax)

\* temperature * annealing if annealed_sampling else temperature (line 322)
SamplingTemperature(temp, t, annealed) ==
    IF annealed THEN temp * (TimeUnit - t) ELSE temp * TimeUnit
\* cfg_strength * timestep if annealed_sampling else cfg_strength (line 323)
SamplingCfg(strength, t, annealed) ==
    IF annealed THEN strength * t ELSE strength * TimeUnit
\* strength=cfg_strength of the cfg_logits call (line 358)
FuseStrength(strength, t, annealed) == strength * TimeUnit

RECURSIVE SumLevels(_, _)
SumLevels(f, l) == IF l = 0 THEN 0 ELSE f[l] + SumLevels(f, l - 1)

InitNar ==
    /\ NoDispatch
    /\ NarV1Idle
    /\ LibIdle
    /\ ARLoopIdle
    /\ TrainRestIdle
    /\ pc = "denoise"
    /\ variant = "nar_masked"
    /\ batch_size \in 1 .. MaxBatch
    /\ \E raw \in [1 .. batch_size -> 0 .. (MaxCanvas + 1)] :
         len_list = [k \in 1 .. batch_size |-> clamp(raw[k], MinLength, MaxCanvas)]
    /\ SumLevels(len_list, batch_size) <= MaxCanvas
    /\ nar_steps \in 0 .. MaxNarSteps
    /\ denoise_start \in NoiseLevels
    /\ denoise_end \in NoiseLevels
    /\ denoise_start <= denoise_end
    /\ max_steps = NarMaxSteps(nar_steps, denoise_start, denoise_end)
    /\ remasking \in BOOLEAN
    /\ cfg_strength \in {-10, 0, 30}
    /\ minimum_cfg_strength \in {0, DefaultMinimumCfg}
    /\ annealed_sampling \in BOOLEAN
    /\ temperature \in {0, 10}
    /\ sampling_temperature = 0
    /\ sampling_cfg = 0
    /\ fuse_strength = 0
    /\ resps_list = [k \in 1 .. batch_size |->
                       [t \in 1 .. len_list[k] |-> [l \in 1 .. NRespLevels |-> MaskToken]]]
    /\ scores = [k \in 1 .. batch_size |-> [t \in 1 .. len_list[k] |-> ConfMax * NRespLevels]]
    /\ is_masked = << >>
    /\ timestep = 0
    /\ n = 0
    /\ invocations = 0
    /\ null_invocations = 0
    /\ sampler_logits = "none"

\* cfg_strength = max( cfg_strength, minimum_cfg_strength )
EffectiveCfg == Max(cfg_strength, minimum_cfg_strength)

\* one iteration of "for timestep in iterator" of forward_nar_masked, the
\* sampler drawing from outputs
StepNarOver(outputs) ==
    /\ pc = "denoise"
    /\ variant = "nar_masked"
    /\ n < max_steps
    /\ LET t == Linspace(denoise_start, denoise_end, max_steps, n)
           k(b) == clamp(MaskCount(t, len_list[b], max_steps, remasking), 1, len_list[b])
       IN /\ timestep' = t
          /\ sampling_temperature' = SamplingTemperature(temperature, t, annealed_sampling)
          /\ sampling_cfg' = SamplingCfg(EffectiveCfg, t, annealed_sampling)
          /\ fuse_strength' = IF CfgEnabled(EffectiveCfg)
                              THEN FuseStrength(EffectiveCfg, t, annealed_sampling)
                              ELSE fuse_strength
          /\ \E masked_indices \in [1 .. batch_size -> SUBSET (1 .. MaxCanvas)] :
               /\ \A b \in 1 .. batch_size : masked_indices[b] \in TopK(scores[b], k(b))
               /\ LET input == [b \in 1 .. batch_size |->
                                  Scatter(resps_list[b], masked_indices[b])]
                      masked == [b \in 1 .. batch_size |->
                                   IsMasked(input[b], masked_indices[b])]
                      \* the sampler's output matters at the masked cells only
                      cells == {c \in (1 .. batch_size) \X (1 .. MaxCanvas) \X (1 .. NRespLevels) :
                                  <<c[2], c[3]>> \in masked[c[1]]}
                  IN \E sampled \in [cells -> outputs] :
                     /\ is_masked' = masked
                     /\ resps_list' = [b \in 1 .. batch_size |->
                          [p \in 1 .. len_list[b] |-> [l \in 1 .. NRespLevels |->
                              IF <<p, l>> \in masked[b] THEN sampled[<<b, p, l>>][1]
                              ELSE input[b][p][l]]]]
                     /\ scores' = [b \in 1 .. batch_size |->
                          [p \in 1 .. len_list[b] |->
                              SumLevels([l \in 1 .. NRespLevels |->
                                           IF <<p, l>> \in masked[b]
                                           THEN sampled[<<b, p, l>>][2] ELSE 0],
                                        NRespLevels)]]
    /\ n' = n + 1
    /\ invocations' = invocations + 1
    /\ null_invocations' = IF CfgEnabled(EffectiveCfg) THEN null_invocations + 1
                           ELSE null_invocations
    /\ sampler_logits' = IF CfgEnabled(EffectiveCfg) THEN "fused" ELSE "conditional"
    /\ UNCHANGED << pc, variant, batch_size, max_steps, cfg_strength, len_list,
                    denoise_start, denoise_end, nar_steps, remasking,
                    minimum_cfg_strength, annealed_sampling, temperature >>
    /\ UNCHANGED notNar

\* line 408: return resps_list
ReturnNar ==
    /\ pc = "denoise"
    /\ variant = "nar_masked"
    /\ n >= max_steps
    /\ pc' = "done"
    /\ UNCHANGED << variant, batch_size, max_steps, cfg_strength, n, invocations,
                    null_invocations, sampler_logits, resps_list >>
    /\ UNCHANGED nmVars
    /\ UNCHANGED notNar

StepNar == StepNarOver(Samples)

NextNar == StepNar \/ ReturnNar

SpecNar == InitNar /\ [][NextNar]_vars

\* the default schedule and sampling options, one item, a vocabulary of two ids
InitNarWide ==
    /\ InitNar
    /\ batch_size = 1
    /\ denoise_start = 0
    /\ denoise_end = TimeUnit
    /\ annealed_sampling
    /\ temperature = 0
    /\ cfg_strength = 30
    /\ minimum_cfg_strength = DefaultMinimumCfg

StepNarWide == StepNarOver(SamplesWide)

NextNarWide == StepNarWide \/ ReturnNar

SpecNarWide == InitNarWide /\ [][NextNarWide]_vars

\* ------------------------------------------------ dispatch of forward()
\* the task tags the models know
RecognisedTasks == {"tts", "len"} \cup TextTasks
DispatchTasks == {"tts", "len", "stt", "bogus"}
NoTasks == << "None" >>

\* n_levels == self.n_resp_levels
ImpliedTraining(resps) == IF resps = "full" THEN "True" ELSE "False"

\* AR_NAR_V2.forward, lines 706-815
RouteV2(train, phns, resps, lens, tasks) ==
    LET t == IF train = "None" /\ phns /\ resps # "None" THEN ImpliedTraining(resps) ELSE train
    IN IF t = "True" THEN "forward_train"
       ELSE IF (lens \/ resps # "None") /\ phns THEN "forward_nar_masked"
       ELSE IF tasks # NoTasks /\ tasks[1] = "len" THEN "forward_ar_len"
       ELSE "forward_ar"

\* AR_NAR.forward, lines 69-77, 158 and 216
RouteV1(train, resps) ==
    IF resps # "None"
    THEN (IF (IF train = "None" THEN ImpliedTraining(resps) ELSE train) = "True"
          THEN "train" ELSE "nar")
    ELSE "ar"

\* the routes whose call of self.inputs() carries the caller's task_list
PassesTasks(r) == r \in {"train", "ar", "forward_train", "forward_ar"}
\* the routes that iterate over task_list before the model is invoked
IteratesTasks(r) == r \in {"forward_train", "forward_ar"}

\* the routes that iterate over len_list before the model is invoked (line 286)
IteratesLens(r) == r = "forward_nar_masked"

\* Base.inputs(): refuses a task tag it does not know
InputsRejects(tasks) == \E k \in DOMAIN tasks : tasks[k] \notin RecognisedTasks

InitDispatch ==
    /\ ARIdle
    /\ NarV1Idle
    /\ LibIdle
    /\ NarIdle
    /\ TrainCoreIdle
    /\ resps_list = << >>
    /\ pc = "call"
    /\ variant \in {"v1", "v2"}
    /\ batch_size \in 1 .. MaxBatch
    /\ task_list \in {NoTasks} \cup [1 .. batch_size -> DispatchTasks]
    /\ training \in {"None", "True", "False"}
    /\ phns_given \in BOOLEAN
    /\ resps_given \in {"None", "full", "partial"}
    /\ len_given \in BOOLEAN
    /\ variant = "v1" => phns_given /\ ~len_given
    /\ route = "none"

\* forward() picks the branch
Dispatch ==
    /\ pc = "call"
    /\ route' = IF variant = "v1" THEN RouteV1(training, resps_given)
                ELSE RouteV2(training, phns_given, resps_given, len_given, task_list)
    \* lines 65-66 of ar_nar.py
    /\ task_list' = IF variant = "v1" /\ task_list = NoTasks
                    THEN [k \in 1 .. batch_size |-> "tts"] ELSE task_list
    /\ pc' = "routed"
    /\ UNCHANGED << variant, batch_size, training, phns_given, resps_given, len_given >>
    /\ UNCHANGED << arVars, arExtra, narVars, nmVars, libVars >>
    /\ UNCHANGED << phns_list, text_list, proms_list, resps_list, quant_levels,
                    timesteps, prom, idx, quant_lo, rvq_levels_p, p_rvq_levels,
                    masking_train_p,
                    predict_causally, drawn, in_proms, in_resps,
                    cfg_draws, caller, token_dropout_error, token_dropout_rvq_levels >>

\* the branch builds its inputs and invokes the sequence model for the first time
FirstInvocation ==
    /\ pc = "routed"
    /\ IF \/ (IteratesTasks(route) /\ task_list = NoTasks)
          \/ (IteratesLens(route) /\ ~len_given)
          \/ (PassesTasks(route) /\ task_list # NoTasks /\ InputsRejects(task_list))
       THEN pc' = "raised" /\ UNCHANGED invocations
       ELSE pc' = "invoked" /\ invocations' = invocations + 1
    /\ UNCHANGED << variant, batch_size >>
    /\ UNCHANGED << causal_size, max_steps, sampling_beam_width,
                    sampling_mirostat_tau, cfg_strength, sequence_list, stopped, mirostat,
                    n, null_invocations, sampler_logits, emitted, lengths >>
    /\ UNCHANGED << arExtra, narVars, trVars, nmVars, dpVars, libVars >>

NextDispatch == Dispatch \/ FirstInvocation

SpecDispatch == InitDispatch /\ [][NextDispatch]_vars

\* ------------------------------------------------- forward_ar_len (v2)
\* stop_token = 10 of forward_ar_len
LenStopToken == 10
\* class ids the argmax of the length head can return
LenRaw == {0, 1, LenStopToken, LenStopToken + 1}

\* "if token > stop_token: r[i][0] = stop_token"
Sanitize(token) == IF token > LenStopToken THEN LenStopToken ELSE token

\* [ token for token in r if token != stop_token ]
RECURSIVE NotStop(_)
NotStop(r) ==
    IF r = << >> THEN << >>
    ELSE IF r[1] # LenStopToken THEN << r[1] >> \o NotStop(Tail(r))
    ELSE NotStop(Tail(r))

\* int("".join([ str(token) ... ])) for tokens in 0 .. 9
RECURSIVE ParseInt(_)
ParseInt(digits) ==
    IF digits = << >> THEN 0
    ELSE 10 * ParseInt(SubSeq(digits, 1, Len(digits) - 1)) + digits[Len(digits)]

InitLen ==
    /\ NoDispatch
    /\ NarV1Idle
    /\ LibIdle
    /\ TrainIdle
    /\ NarIdle
    /\ pc = "loop"
    /\ variant = "len"
    /\ ARExtraIdle
    /\ causal_size = 1
    /\ max_steps = LenMaxSteps
    /\ batch_size \in 1 .. MaxBatch
    /\ sampling_beam_width = 0
    /\ sampling_mirostat_tau = 0
    /\ cfg_strength = 0
    /\ sequence_list = [i \in 1 .. batch_size |-> << 0 >>]
    /\ stopped = [i \in 1 .. batch_size |-> FALSE]
    /\ mirostat = << >>
    /\ n = 0
    /\ invocations = 0
    /\ null_invocations = 0
    /\ sampler_logits = "none"
    /\ emitted = [i \in 1 .. batch_size |-> << >>]
    /\ lengths = "None"

\* one iteration of "for n in iterator" of forward_ar_len
StepLen ==
    /\ pc = "loop"
    /\ variant = "len"
    /\ n < max_steps
    /\ \E raw \in [1 .. batch_size -> LenRaw] :
         LET r == [i \in 1 .. batch_size |-> Sanitize(raw[i])]
             stop1 == [i \in 1 .. batch_size |-> stopped[i] \/ r[i] = LenStopToken]
         IN /\ sequence_list' = [i \in 1 .. batch_size |-> Append(sequence_list[i], r[i])]
            /\ emitted' = [i \in 1 .. batch_size |-> Append(emitted[i], r[i])]
            /\ stopped' = stop1
            /\ pc' = IF AllStopped(stop1) THEN "convert" ELSE "loop"
    /\ n' = n + 1
    /\ invocations' = invocations + 1
    /\ sampler_logits' = "conditional"
    /\ UNCHANGED << variant, causal_size, max_steps, batch_size, sampling_beam_width,
                    sampling_mirostat_tau, cfg_strength, mirostat, null_invocations, lengths >>
    /\ UNCHANGED notAR

\* the ten iterations are used up
LoopEndLen ==
    /\ pc = "loop"
    /\ variant = "len"
    /\ n >= max_steps
    /\ pc' = "convert"
    /\ UNCHANGED << variant, causal_size, max_steps, batch_size, sampling_beam_width,
                    sampling_mirostat_tau, cfg_strength, sequence_list, stopped, mirostat,
                    n, invocations, null_invocations, sampler_logits, emitted, lengths >>
    /\ UNCHANGED notAR

\* line 513: convert tokens into int
ReturnLen ==
    /\ pc = "convert"
    /\ lengths' = [i \in 1 .. batch_size |-> ParseInt(NotStop(sequence_list[i]))]
    /\ pc' = "done"
    /\ UNCHANGED << variant, causal_size, max_steps, batch_size, sampling_beam_width,
                    sampling_mirostat_tau, cfg_strength, sequence_list, stopped, mirostat,
                    n, invocations, null_invocations, sampler_logits, emitted >>
    /\ UNCHANGED notAR

NextLen == StepLen \/ LoopEndLen \/ ReturnLen

SpecLen == InitLen /\ [][NextLen]_vars

\* ------------------------------------- NAR level loop of AR_NAR.forward
\* a response as the caller passes it: a 1D tensor or a tensor of L levels
Tensor1D(T) == [dim |-> 1, rows |-> [t \in 1 .. T |-> << 0 >>]]
Tensor2D(T, L) == [dim |-> 2, rows |-> [t \in 1 .. T |-> [l \in 1 .. L |-> 0]]]
\* lines 163-165: resp.unsqueeze(-1) for a 1D tensor
Unsqueeze(resp) == [dim |-> 2, rows |-> resp.rows]
\* line 160: max_levels = self.n_max_levels - 1 when max_levels == 0
EffectiveLevels(ml) == IF ml = 0 THEN MaxNarLevels ELSE ml
\* line 171: if level >= max_levels + 1: break
LevelsReachedEarly(level, ml) == level >= ml
LevelsReached(level, ml) == level >= ml + 1
\* what one sampler call yields for an item of T timesteps: one id per timestep
SampledLevel(T) == [1 .. T -> Tokens]
\* line 209: torch.cat([rs, r.unsqueeze(-1)], dim=-1)
CatLevel(rs, r) == [t \in 1 .. Len(rs) |-> Append(rs[t], r[t])]

InitNarV1 ==
    /\ NoDispatch
    /\ LibIdle
    /\ ARIdle
    /\ NarIdle
    /\ TrainRestIdle
    /\ pc = "expand"
    /\ variant = "nar"
    /\ batch_size \in 1 .. MaxBatch
    /\ n_levels \in 1 .. (MaxNarLevels + 1)
    /\ max_levels \in 0 .. MaxNarLevels
    /\ resps_list \in [1 .. batch_size ->
                         {Tensor2D(T, n_levels) : T \in 1 .. TrainLen}
                         \cup (IF n_levels = 1 THEN {Tensor1D(T) : T \in 1 .. TrainLen}
                               ELSE {})]
    \* the cells the loop can fill
    /\ LET missing == Max(0, EffectiveLevels(max_levels) + 1 - n_levels)
           rows == [i \in 1 .. batch_size |-> Len(resps_list[i].rows)]
       IN missing * SumLevels(rows, batch_size) <= MaxCells
    /\ prev_list = << >>

\* lines 159-167 of ar_nar.py
ExpandNarV1 ==
    /\ pc = "expand"
    /\ variant = "nar"
    /\ max_levels' = EffectiveLevels(max_levels)
    /\ resps_list' = [i \in 1 .. batch_size |->
                        IF resps_list[i].dim = 1 THEN Unsqueeze(resps_list[i])
                        ELSE resps_list[i]]
    /\ prev_list' = [i \in 1 .. batch_size |-> resps_list[i].rows]
    /\ pc' = "levels"
    /\ UNCHANGED << variant, batch_size, n_levels, quant_levels >>
    /\ UNCHANGED << arVars, arExtra, nmVars, dpVars, libVars >>
    /\ UNCHANGED << task_list, phns_list, text_list, proms_list, trLocals >>

\* one iteration of "for n in trange( max_levels )" of ar_nar.py
StepNarV1 ==
    /\ pc = "levels"
    /\ variant = "nar"
    /\ n < max_levels
    /\ LET level == Len(prev_list[1][1])
       IN /\ ~LevelsReached(level, max_levels)
          /\ quant_levels' = [i \in 1 .. batch_size |-> level]
          /\ \E r \in [1 .. batch_size -> UNION {SampledLevel(T) : T \in 1 .. TrainLen}] :
               /\ \A i \in 1 .. batch_size : Len(r[i]) = Len(prev_list[i])
               /\ resps_list' = [i \in 1 .. batch_size |-> [dim |-> 1, rows |-> r[i]]]
               /\ prev_list' = [i \in 1 .. batch_size |-> CatLevel(prev_list[i], r[i])]
    /\ n' = n + 1
    /\ invocations' = invocations + 1
    /\ sampler_logits' = "conditional"
    /\ UNCHANGED << pc, variant, batch_size, max_levels, n_levels >>
    /\ UNCHANGED << causal_size, max_steps, sampling_beam_width, sampling_mirostat_tau,
                    cfg_strength, sequence_list, stopped, mirostat, null_invocations,
                    emitted, lengths >>
    /\ UNCHANGED << arExtra, nmVars, dpVars, libVars >>
    /\ UNCHANGED << task_list, phns_list, text_list, proms_list, trLocals >>

\* the break of line 172 or the end of the range; line 214 returns prev_list
ReturnNarV1 ==
    /\ pc = "levels"
    /\ variant = "nar"
    /\ n >= max_levels \/ LevelsReached(Len(prev_list[1][1]), max_levels)
    /\ pc' = "done"
    /\ UNCHANGED << variant, batch_size >>
    /\ UNCHANGED << arVars, arExtra, narVars, trVars, nmVars, dpVars, libVars >>

NextNarV1 == ExpandNarV1 \/ StepNarV1 \/ ReturnNarV1

SpecNarV1 == InitNarV1 /\ [][NextNarV1]_vars

\* ------------------------------------------------------- lora.Linear
\* everything that belongs to the sequence models' calls
modelVars == << batch_size, arVars, arExtra, narVars, trVars, nmVars, dpVars >>
ModelIdle ==
    /\ NoDispatch /\ NarV1Idle /\ ARIdle /\ NarIdle /\ TrainIdle /\ batch_size = 0

\* floating-point numbers are modelled with MantissaBits significant bits, in
\* units of the smallest step; a sum is rounded to the nearest such number,
\* ties to the even mantissa
MantissaBits == 2
\* train() calls explored
MaxLoraCalls == 4

Abs(x) == IF x < 0 THEN -x ELSE x
RECURSIVE Pow2(_)
Pow2(k) == IF k = 0 THEN 1 ELSE 2 * Pow2(k - 1)
RECURSIVE Ulp(_)
Ulp(m) == IF m < Pow2(MantissaBits) THEN 1 ELSE 2 * Ulp(m \div 2)
RoundFloat(x) ==
    LET m == Abs(x)
        u == Ulp(m)
        q == m \div u
        r == m % u
        y == (q + (IF 2 * r > u \/ (2 * r = u /\ q % 2 = 1) THEN 1 ELSE 0)) * u
    IN IF x < 0 THEN -y ELSE y

\* (self.lora_B @ self.lora_A) * self.scaling for a 1x1 layer of rank 1, alpha 1
Delta(l) == l.lora_B * l.lora_A

\* line 60 / line 65: the conditions of train()
SeparateNeeded(mode, l) == mode /\ l.merge_weights /\ l.merged
MergeNeededAlways(mode, l) == ~mode /\ l.merge_weights
MergeNeeded(mode, l) == ~mode /\ l.merge_weights /\ ~l.merged

\* __init__ and reset_parameters: lora_B is zero, merged is False
InitLora ==
    /\ ModelIdle
    /\ pc = "idle"
    /\ variant = "lora"
    /\ tn = << >>
    /\ \E w \in {1, Pow2(MantissaBits)}, a \in {1, 3}, mw \in BOOLEAN :
         /\ lora = [weight |-> w, lora_A |-> a, lora_B |-> 0, merge_weights |-> mw,
                    merged |-> FALSE, training |-> TRUE, result |-> 0]
         /\ lora_log = [base |-> w, adds |-> 0, subs |-> 0, calls |-> 0, mode |-> TRUE]

\* Linear.train(mode), lines 56-67
TrainLora ==
    /\ variant = "lora"
    /\ lora_log.calls < MaxLoraCalls
    /\ \E mode \in BOOLEAN :
         LET sep == SeparateNeeded(mode, lora)
             l1 == IF sep
                   THEN [lora EXCEPT !.weight = RoundFloat(@ - Delta(lora)), !.merged = FALSE]
                   ELSE lora
             mrg == MergeNeeded(mode, l1)
             l2 == IF mrg
                   THEN [l1 EXCEPT !.weight = RoundFloat(@ + Delta(l1)), !.merged = TRUE]
                   ELSE l1
         IN /\ lora' = [l2 EXCEPT !.training = mode]
            /\ lora_log' = [lora_log EXCEPT !.calls = @ + 1, !.mode = mode,
                                            !.subs = IF sep THEN @ + 1 ELSE @,
                                            !.adds = IF mrg THEN @ + 1 ELSE @]
    /\ UNCHANGED << pc, variant, tn, modelVars >>

\* an optimizer step on lora_A and lora_B while the layer is in training mode
UpdateLora ==
    /\ variant = "lora"
    /\ lora.training
    /\ ~lora.merged
    /\ \E a \in {1, 3}, b \in {-1, 0, 1} :
         /\ <<a, b>> # <<lora.lora_A, lora.lora_B>>
         /\ lora' = [lora EXCEPT !.lora_A = a, !.lora_B = b]
    /\ UNCHANGED << pc, variant, lora_log, tn, modelVars >>

\* Linear.forward(x) for x = 1 and no bias, lines 69-75
ForwardLora ==
    /\ variant = "lora"
    /\ lora' = [lora EXCEPT !.result =
                  IF ~lora.merged
                  THEN RoundFloat(lora.weight + lora.lora_A * lora.lora_B)
                  ELSE lora.weight]
    /\ UNCHANGED << pc, variant, lora_log, tn, modelVars >>

NextLora == TrainLora \/ UpdateLora \/ ForwardLora

SpecLora == InitLora /\ [][NextLora]_vars

\* ------------------------------------------------------ trainer.train
\* cfg.trainer.iterations
MaxIterations == 3
\* registered events kept at a time
MaxEvents == 2

\* what _non_blocking_input() returns before the loop
PreCommands == {"", "quit", "eval", "eval_quit"}
\* what it returns inside the loop, as << text, when >>: a plain command (when
\* is 0) or "what@when"
PlainCommands == {"", "save", "quit", "eval", "event clear"} \X {0}
EventCommands == {"quit", "save"} \X (1 .. MaxIterations)
\* "@" in command
IsEvent(typed) == typed[2] # 0

\* save_ckpt_every = cfg.trainer.save_frequency or cfg.evaluation.frequency
SaveCkptEvery(t) == IF t.save_frequency # 0 THEN t.save_frequency ELSE t.eval_frequency
\* saving_commands, lines 234-237
SavingCommandsNoQuit(save_on_quit) == {"save"}
SavingCommands(save_on_quit) == IF save_on_quit THEN {"save", "quit"} ELSE {"save"}

RECURSIVE Filter(_, _)
Filter(es, step) ==
    IF es = << >> THEN << >>
    ELSE (IF es[1][2] >= step THEN << es[1] >> ELSE << >>) \o Filter(Tail(es), step)
RECURSIVE Triggered(_, _)
Triggered(es, step) ==
    IF es = << >> THEN << >>
    ELSE (IF es[1][2] = step THEN << es[1][1] >> ELSE << >>) \o Triggered(Tail(es), step)

InitTrainer ==
    /\ ModelIdle
    /\ pc = "start"
    /\ variant = "trainer"
    /\ lora = << >>
    /\ lora_log = << >>
    /\ \E gs \in {0, 1}, sq \in BOOLEAN, sf \in {0, 3}, ef \in {2, 3} :
         tn = [global_step |-> gs, start_step |-> gs, last_save_step |-> 0,
               last_eval_step |-> 0, events |-> << >>, commands |-> << >>,
               typed |-> "", saves |-> << >>, exit |-> "no",
               save_on_quit |-> sq, save_frequency |-> sf, eval_frequency |-> ef]

\* lines 154-164: the pre-loop command
TrainerStart ==
    /\ pc = "start"
    /\ variant = "trainer"
    /\ \E command \in PreCommands :
         IF command \in {"quit", "eval_quit"}
         THEN /\ pc' = "returned"
              /\ tn' = [tn EXCEPT !.exit = "preloop", !.typed = command]
         ELSE /\ pc' = "batch"
              /\ tn' = [tn EXCEPT !.last_save_step = tn.global_step, !.last_eval_step = 0,
                                  !.typed = command]
    /\ UNCHANGED << variant, lora, lora_log, modelVars >>

\* lines 168-169: the iteration budget is used up
TrainerBreak ==
    /\ pc = "batch"
    /\ variant = "trainer"
    /\ tn.global_step >= MaxIterations
    /\ pc' = "returned"
    /\ tn' = [tn EXCEPT !.exit = "break"]
    /\ UNCHANGED << variant, lora, lora_log, modelVars >>

\* lines 171-207: one engines.step, the command typed, the events that fire
TrainerBatch ==
    /\ pc = "batch"
    /\ variant = "trainer"
    /\ tn.global_step < MaxIterations
    \* engines.step completes an optimizer step or only accumulates gradients
    /\ \E gs \in {tn.global_step, tn.global_step + 1} :
       \E typed \in PlainCommands \cup EventCommands :
         /\ IsEvent(typed) => Len(tn.events) < MaxEvents
         /\ LET registered == IF IsEvent(typed)
                              THEN Append(tn.events, typed) ELSE tn.events
                command == IF IsEvent(typed) THEN "" ELSE typed[1]
                events == Filter(registered, gs)
            IN tn' = [tn EXCEPT !.global_step = gs, !.events = events,
                                !.typed = command,
                                !.commands = << command >> \o Triggered(events, gs)]
    /\ pc' = "commands"
    /\ UNCHANGED << variant, lora, lora_log, modelVars >>

\* lines 209-255: the body of "for command in commands" for one command
TrainerCommand ==
    /\ pc = "commands"
    /\ variant = "trainer"
    /\ tn.commands # << >>
    /\ LET command == Head(tn.commands)
           gs == tn.global_step
           save == /\ gs # tn.last_save_step
                   /\ (gs % SaveCkptEvery(tn) = 0
                       \/ command \in SavingCommands(tn.save_on_quit))
           eval == /\ gs # tn.last_eval_step
                   /\ (gs % tn.eval_frequency = 0 \/ command = "eval")
           rest == Tail(tn.commands)
       IN /\ tn' = [tn EXCEPT
                      !.events = IF command = "event clear" THEN << >> ELSE @,
                      !.saves = IF save THEN Append(@, gs) ELSE @,
                      !.last_save_step = IF save THEN gs ELSE @,
                      !.last_eval_step = IF eval THEN gs ELSE @,
                      !.exit = IF command = "quit" THEN "quit" ELSE @,
                      !.commands = IF command = "quit" THEN @ ELSE rest]
          /\ pc' = IF command = "quit" THEN "returned"
                   ELSE IF rest = << >> THEN "batch" ELSE "commands"
    /\ UNCHANGED << variant, lora, lora_log, modelVars >>

NextTrainer == TrainerStart \/ TrainerBreak \/ TrainerBatch \/ TrainerCommand

SpecTrainer == InitTrainer /\ [][NextTrainer]_vars

NextAR == StepV1 \/ StepV2 \/ LoopEnd \/ ReturnV1 \/ ReturnV2

SpecAR == InitAR /\ [][NextAR]_vars

\* the decode loops that can apply classifier-free guidance
SpecDecode == (InitAR \/ InitNar) /\ [][NextAR \/ NextNar]_vars

Init == InitAR \/ InitLen \/ InitTrain \/ InitDropout \/ InitNar \/ InitDispatch \/ InitNarV1
           \/ InitLora \/ InitTrainer
Next == NextAR \/ NextLen \/ NextTrain \/ NextNar \/ NextNarWide \/ NextDispatch
           \/ NextNarV1 \/ NextLora \/ NextTrainer
Spec == Init /\ [][Next]_vars

\* ================================================================ claims
\* index of the first row of a log that holds a stop token (0 when none)
FirstStop(rows) ==
    IF \A t \in 1 .. Len(rows) : \A l \in DOMAIN rows[t] : rows[t][l] # StopToken THEN 0
    ELSE CHOOSE t \in 1 .. Len(rows) :
           /\ \E l \in DOMAIN rows[t] : rows[t][l] = StopToken
           /\ \A u \in 1 .. (t - 1) : \A l \in DOMAIN rows[u] : rows[u][l] # StopToken
\* the iteration (1-based) in which the first stop token of a log was sampled
StopStep(rows) == (FirstStop(rows) + causal_size - 1) \div causal_size
MaxOf(S) == CHOOSE x \in S : \A y \in S : x >= y

\* C1: every sequence returned by the AR loop has at most max_steps rows, and
\* when a stop token was sampled for the item it is exactly the rows emitted
\* before the item's first stop token.
C1_PrunedAtFirstStop ==
    pc = "done" =>
        \A i \in DOMAIN sequence_list :
            /\ Len(sequence_list[i]) <= max_steps
            /\ FirstStop(emitted[i]) # 0 =>
                 sequence_list[i] = SubSeq(emitted[i], 1, FirstStop(emitted[i]) - 1)
C1_Witness ==
    /\ pc = "done"
    /\ \E i \in DOMAIN sequence_list :
         /\ FirstStop(emitted[i]) > 1
         /\ Len(emitted[i]) > FirstStop(emitted[i])

\* C6 (as amended): the loop ends only when every item has sampled a stop
\* token or the step budget is used up; when every item has sampled a stop
\* token and the last of the first stops came in iteration k, the loop has
\* ended after exactly k model invocations and every working sequence holds
\* k * causal_size rows.
C6_StopTiming ==
    (pc = "prune" /\ variant \in {"v1", "v2"}) =>
        /\ n = Iterations \/ \A i \in DOMAIN emitted : FirstStop(emitted[i]) # 0
        /\ (\A i \in DOMAIN emitted : FirstStop(emitted[i]) # 0) =>
             LET k == MaxOf({StopStep(emitted[i]) : i \in DOMAIN emitted})
             IN /\ n = k
                /\ invocations = k
                /\ \A i \in DOMAIN sequence_list : Len(sequence_list[i]) = k * causal_size
C6_Witness ==
    /\ pc = "prune"
    /\ n = 3
    /\ batch_size = 2
    /\ \A i \in DOMAIN emitted : FirstStop(emitted[i]) # 0
    /\ \E i \in DOMAIN emitted : StopStep(emitted[i]) < 3
\* C6 as stated: every working sequence holds exactly k rows.
C6_Original ==
    (pc = "prune" /\ \A i \in DOMAIN emitted : FirstStop(emitted[i]) # 0) =>
        LET k == MaxOf({StopStep(emitted[i]) : i \in DOMAIN emitted})
        IN /\ n = k
           /\ \A i \in DOMAIN sequence_list : Len(sequence_list[i]) = k

\* C10: a call with both mirostat and beam search enabled is rejected before
\* the sampler is called or any token is appended.
C10_MirostatBeamRejected ==
    (variant = "v1" /\ sampling_mirostat_tau > 0 /\ sampling_beam_width > 0) =>
        /\ sampler_logits = "none"
        /\ \A i \in DOMAIN emitted : emitted[i] = << >>

\* the digits of a length log that precede its first stop token
RECURSIVE BeforeStop(_)
BeforeStop(r) ==
    IF r = << >> \/ r[1] = LenStopToken THEN << >> ELSE << r[1] >> \o BeforeStop(Tail(r))
RECURSIVE Decimal(_)
Decimal(digits) ==
    IF digits = << >> THEN 0
    ELSE digits[1] * 10 ^ (Len(digits) - 1) + Decimal(Tail(digits))

\* C5: the integer returned for an item is the decimal number formed by the
\* digits emitted for it before its first stop token.
C5_LengthIsDigitsBeforeStop ==
    (variant = "len" /\ pc = "done") =>
        \A i \in 1 .. batch_size : lengths[i] = Decimal(BeforeStop(emitted[i]))

\* rows of a response that hold a stop token
StopRowsOf(r) == {t \in 1 .. Len(r) : \E l \in DOMAIN r[t] : r[t][l] = StopToken}

\* C2: an item handed to the model with quant level 0 ends with exactly one
\* stop-token row, and an item with quant level >= 1 has no stop-token row.
C2_StopRowIffLevelZero ==
    pc = "handed" =>
        \A k \in 1 .. batch_size :
            /\ quant_levels[k] = 0 => StopRowsOf(resps_list[k]) = {Len(resps_list[k])}
            /\ quant_levels[k] >= 1 => StopRowsOf(resps_list[k]) = {}

\* level counts of the tensors of a prompt
PromLevels(pr) ==
    IF pr.kind = "tensor" THEN {pr.levels}
    ELSE IF pr.kind = "list"
    THEN {pr.segs[j].levels : j \in {j \in DOMAIN pr.segs : pr.segs[j].kind = "tensor"}}
    ELSE {}

\* What the builders do about C7: the v1 builder hands over a response with
\* exactly the levels 0..min(l, L-1), l being the level drawn for the item and L
\* the level count of its ground truth, and leaves the prompts as passed; the v2
\* builder trims neither the response nor a prompt it hands over.
C7_LevelTrimming ==
    pc = "handed" =>
        \A k \in 1 .. batch_size :
            /\ variant = "v1" =>
                 /\ Levels(resps_list[k]) = Min(drawn[k], Levels(in_resps[k]) - 1) + 1
                 /\ proms_list[k] = in_proms[k]
            /\ variant = "v2" =>
                 /\ Levels(resps_list[k]) = Levels(in_resps[k])
                 /\ proms_list[k] \in {in_proms[k], NoneProm}
C7_Witness ==
    /\ pc = "handed"
    /\ variant = "v1"
    /\ \E k \in 1 .. batch_size :
         /\ Levels(in_resps[k]) = TrainLevels
         /\ quant_levels[k] = TrainLevels - 2
         /\ Levels(resps_list[k]) = TrainLevels - 1
\* C7: every prompt tensor and the response of an item handed to the model
\* with quant level q hold exactly the levels 0..q.
C7_TrimmedToLevel ==
    pc = "handed" =>
        \A k \in 1 .. batch_size :
            /\ Levels(resps_list[k]) = quant_levels[k] + 1
            /\ \A P \in PromLevels(proms_list[k]) : P = quant_levels[k] + 1

\* positions of a canvas that hold the mask token on some level
MaskedPositions(resp) ==
    {t \in DOMAIN resp : \E l \in DOMAIN resp[t] : resp[t][l] = MaskToken}

\* What the loop guarantees about C3: when it runs at least one iteration, the
\* canvas it returns holds no mask token.
C3_NoMaskAfterAStep ==
    (variant = "nar_masked" /\ pc = "done" /\ max_steps >= 1) =>
        \A b \in 1 .. batch_size : MaskedPositions(resps_list[b]) = {}
C3_AfterAStepWitness ==
    /\ variant = "nar_masked"
    /\ pc = "done"
    /\ denoise_start > 0
    /\ n >= 2
    /\ \E b \in 1 .. batch_size : len_list[b] >= 2
\* C3: the canvas returned by any call of the masked-NAR loop holds no mask
\* token at any position of any level.
C3_NoMaskReturned ==
    (variant = "nar_masked" /\ pc = "done") =>
        \A b \in 1 .. batch_size : MaskedPositions(resps_list[b]) = {}

\* positions masked at the last model invocation
InvokedMasked(b) == {c[1] : c \in is_masked[b]}

\* C4: from one iteration of the denoising loop to the next, the number of
\* positions of an item that are masked when the model is invoked never grows.
C4_MaskedCountNonIncreasing ==
    [][(variant = "nar_masked" /\ n >= 1 /\ n' = n + 1) =>
          \A b \in 1 .. batch_size :
              Cardinality(InvokedMasked(b)') <= Cardinality(InvokedMasked(b))]_vars
C4_Witness ==
    /\ variant = "nar_masked"
    /\ n >= 2
    /\ remasking
    /\ \E b \in 1 .. batch_size :
         /\ len_list[b] >= 3
         /\ Cardinality(InvokedMasked(b)) < len_list[b]

\* C8 (as amended): with a CFG strength <= 0 the v2 AR loop, and with
\* max(cfg_strength, minimum_cfg_strength) <= 0 the masked-NAR loop, invokes the
\* model once per step and samples from the conditional logits.
Unguided ==
    /\ null_invocations = 0
    /\ invocations = n
    /\ sampler_logits \in {"none", "conditional"}
C8_CfgDisabled ==
    /\ (variant = "v2" /\ cfg_strength <= 0) => Unguided
    /\ (variant = "nar_masked" /\ cfg_strength <= 0 /\ minimum_cfg_strength <= 0) => Unguided
C8_Witness ==
    /\ variant = "nar_masked"
    /\ cfg_strength = 0
    /\ minimum_cfg_strength = 0
    /\ n >= 2
    /\ sampler_logits = "conditional"
\* C8 as stated: a CFG strength <= 0 passed by the caller disables guidance.
C8_Original ==
    (variant \in {"v2", "nar_masked"} /\ cfg_strength <= 0) => Unguided

\* C9: a call whose task list holds an unrecognised tag never reaches the
\* sequence model.
C9_UnknownTaskRejected ==
    (route # "none" /\ task_list # NoTasks /\ InputsRejects(task_list)) => invocations = 0

\* C11: the builder never raises, and the quant level it hands over is at most
\* the level count of the item's response minus one and at most the level count
\* of each of its prompt tensors minus one.
C11_LevelClamped ==
    /\ pc # "raised"
    /\ pc = "handed" =>
         \A k \in 1 .. batch_size :
             /\ quant_levels[k] <= Levels(in_resps[k]) - 1
             /\ \A P \in PromLevels(in_proms[k]) : quant_levels[k] <= P - 1

\* C12: an item that never sampled a stop token is returned with every row
\* that was generated for it, and the AR loop raises nothing.
C12_NoStopKeepsAll ==
    (pc = "done" /\ variant \in {"v1", "v2"}) =>
        \A i \in DOMAIN sequence_list :
            FirstStop(emitted[i]) = 0 => sequence_list[i] = emitted[i]
C12_Witness ==
    /\ pc = "done"
    /\ variant = "v2"
    /\ batch_size = 2
    /\ n = Iterations
    /\ \E i \in DOMAIN sequence_list :
         /\ FirstStop(emitted[i]) = 0
         /\ Len(sequence_list[i]) >= 2
    /\ \E i \in DOMAIN sequence_list : FirstStop(emitted[i]) # 0

\* C14: with a CFG strength > 0 every step of the v2 AR loop hands the sampler
\* the logits fused from the conditional and the null-conditioned outputs.
C14_FusedLogitsSampled ==
    (variant = "v2" /\ cfg_strength > 0 /\ n >= 1) =>
        /\ null_invocations = n
        /\ sampler_logits = "fused"

\* C15: under the policy "equal" the list the levels are drawn from holds every
\* level of the range exactly once; the triangular list belongs to the other
\* non-list policies.
C15_EqualPolicyIsUniform ==
    (pc \in {"validate", "handed"} /\ rvq_levels_p = StrPolicy("equal")) =>
        p_rvq_levels = Range(quant_lo, TrainLevels)

\* a log cut before its first row that holds a stop token
CutAtFirstStop(rows) ==
    IF FirstStop(rows) = 0 THEN rows ELSE SubSeq(rows, 1, FirstStop(rows) - 1)

\* C13: with beam search the v1 loop carries sampling_beam_width hypotheses
\* until it has ended, and returns exactly one sequence: hypothesis 0 cut at its
\* first stop token, whatever the beam scores are.
C13_BeamIndexZero ==
    (variant = "v1" /\ sampling_beam_width > 0) =>
        /\ (pc \in {"loop", "prune"} /\ n >= 1 /\ mirostat = << >>) =>
               Len(sequence_list) = sampling_beam_width
        /\ pc = "done" =>
               /\ Len(sequence_list) = 1
               /\ sequence_list[1] = CutAtFirstStop(emitted[1])
C13_Witness ==
    /\ variant = "v1"
    /\ pc = "done"
    /\ sampling_beam_width = 2
    /\ mirostat = << >>
    /\ scores[2] > scores[1]
    /\ CutAtFirstStop(emitted[1]) # CutAtFirstStop(emitted[2])
    /\ sequence_list[1] # << >>

\* index of the first row of a log that holds the text stop token (0 when none)
FirstTextStop(rows) ==
    IF \A t \in 1 .. Len(rows) : \A l \in DOMAIN rows[t] : rows[t][l] # TextStopToken THEN 0
    ELSE CHOOSE t \in 1 .. Len(rows) :
           /\ \E l \in DOMAIN rows[t] : rows[t][l] = TextStopToken
           /\ \A u \in 1 .. (t - 1) : \A l \in DOMAIN rows[u] : rows[u][l] # TextStopToken
\* the partial sequence of item i went to the model as text / phonemes
FedThroughText(i) ==
    /\ IF text_list # << >> THEN text_list[i].src = "sequence"
       ELSE phns_list[i].src = "sequence"
    /\ resps_list[i].src = "caller"

\* C16: in the v2 AR loop the tokens generated for a text-task item go back to
\* the model through the text / phoneme field, the item is marked stopped once
\* it has sampled the text stop token, and what is returned for it is cut at its
\* first text stop token.
C16_TextTaskDecode ==
    variant = "v2" =>
        \A i \in DOMAIN task_list :
            task_list[i] \in TextTasks =>
                /\ n >= 1 => FedThroughText(i)
                /\ n >= 1 => (stopped[i] <=> FirstTextStop(emitted[i]) # 0)
                /\ (pc = "done" /\ FirstTextStop(emitted[i]) # 0) =>
                       sequence_list[i] = SubSeq(emitted[i], 1, FirstTextStop(emitted[i]) - 1)

\* C17: model invocation n of an AR loop receives the state that invocation
\* n - 1 returned, and the first invocation receives none.
C17_StateThreaded ==
    (variant \in {"v1", "v2"} /\ n >= 1) => state_in = n - 1

\* C18: once the v1 loop has made its first step with beam search, all the
\* per-item lists that build the next model input have the length of the
\* expanded batch.
C18_BeamListsConsistent ==
    (variant = "v1" /\ pc = "loop" /\ sampling_beam_width > 0 /\ mirostat = << >> /\ n >= 1) =>
        /\ Len(text_list) = batch_size
        /\ Len(proms_list) = batch_size
        /\ Len(task_list) = batch_size
        /\ Len(sequence_list) = batch_size
        /\ Len(stopped) = batch_size
        /\ Max(batch_size, sampling_beam_width) = batch_size
        /\ lang_list # << >> => Len(lang_list) = batch_size
        /\ tone_list # << >> => Len(tone_list) = batch_size

\* C19: no two items of an AR call refer to the same mirostat state record.
C19_MirostatPerItem ==
    variant \in {"v1", "v2"} =>
        \A i \in DOMAIN mirostat : \A j \in DOMAIN mirostat :
            i # j => mirostat[i] # mirostat[j]

\* C20: every iteration of the NAR level loop appends exactly one level to
\* every item and leaves the levels it had and its number of timesteps as they
\* were; the loop ends with max(L0, max_levels + 1) levels per item after at
\* most max_levels model invocations.
C20_OneLevelPerIteration ==
    [][variant = "nar" =>
         /\ (pc = "levels" /\ n' = n + 1) =>
                \A i \in 1 .. batch_size :
                    /\ Len(prev_list'[i]) = Len(prev_list[i])
                    /\ \A t \in 1 .. Len(prev_list[i]) :
                         /\ Len(prev_list'[i][t]) = Len(prev_list[i][t]) + 1
                         /\ SubSeq(prev_list'[i][t], 1, Len(prev_list[i][t])) = prev_list[i][t]
         /\ pc' = "done" =>
                /\ invocations' <= max_levels'
                /\ \A i \in 1 .. batch_size : \A t \in 1 .. Len(prev_list'[i]) :
                       Len(prev_list'[i][t]) = Max(n_levels', max_levels' + 1)]_vars
C20_Witness ==
    /\ variant = "nar"
    /\ pc = "done"
    /\ batch_size = 2
    /\ n_levels = 2
    /\ invocations = 2
    /\ Len(prev_list[1]) # Len(prev_list[2])
    /\ \E t \in 1 .. Len(prev_list[1]) : prev_list[1][t][4] = StopToken

\* C21: the masked-NAR loop runs exactly floor(configured_steps * (denoise_end -
\* denoise_start)) iterations, whatever the confidence scores, and each
\* iteration invokes the model once with the conditional inputs.
C21_ExactlyMaxSteps ==
    /\ (variant = "nar_masked") => invocations = n
    /\ (variant = "nar_masked" /\ pc = "done") =>
          /\ n * TimeUnit <= nar_steps * (denoise_end - denoise_start)
          /\ nar_steps * (denoise_end - denoise_start) < (n + 1) * TimeUnit
C21_Witness ==
    /\ variant = "nar_masked"
    /\ pc = "done"
    /\ n = 1
    /\ nar_steps = 3
    /\ denoise_end - denoise_start = TimeUnit \div 2
    /\ \A b \in 1 .. batch_size : \A p \in 1 .. len_list[b] : scores[b][p] = 0

\* C22: a cell that is not masked when the model is invoked keeps the token it
\* held before the iteration; only masked cells receive sampled values.
C22_WriteFrame ==
    [][(variant = "nar_masked" /\ n' = n + 1) =>
          \A b \in 1 .. batch_size : \A p \in 1 .. len_list[b] : \A l \in 1 .. NRespLevels :
              <<p, l>> \notin is_masked'[b] => resps_list'[b][p][l] = resps_list[b][p][l]]_vars
C22_Witness ==
    /\ variant = "nar_masked"
    /\ n >= 2
    /\ \E b \in 1 .. batch_size : \E p \in 1 .. len_list[b] :
         /\ p \notin {c[1] : c \in is_masked[b]}
         /\ resps_list[b][p][1] = StopToken
         /\ \E q \in 1 .. len_list[b] : <<q, 1>> \in is_masked[b]

\* C23: with annealed sampling the sampler temperature and the strength that
\* fuses the logits are the base values times (1 - timestep); without it they
\* are the base values.
C23_AnnealedSampling ==
    (variant = "nar_masked" /\ n >= 1) =>
        /\ sampling_temperature =
              (IF annealed_sampling THEN temperature * (TimeUnit - timestep)
               ELSE temperature * TimeUnit)
        /\ CfgEnabled(EffectiveCfg) =>
              fuse_strength =
                  (IF annealed_sampling THEN EffectiveCfg * (TimeUnit - timestep)
                   ELSE EffectiveCfg * TimeUnit)
\* What the loop guarantees about C23: the temperature is annealed as stated,
\* and the fusing strength is the base value at every iteration.
C23_TemperatureAnnealed ==
    (variant = "nar_masked" /\ n >= 1) =>
        /\ sampling_temperature =
              (IF annealed_sampling THEN temperature * (TimeUnit - timestep)
               ELSE temperature * TimeUnit)
        /\ CfgEnabled(EffectiveCfg) => fuse_strength = EffectiveCfg * TimeUnit

\* C26: when every position sampled in an iteration scored a probability below
\* 1 on some level, the positions masked in the next iteration are among those
\* masked in this one.
C26_MaskedSetsNested ==
    [][(/\ variant = "nar_masked" /\ n >= 1 /\ n' = n + 1
        /\ \A b \in 1 .. batch_size : \A p \in InvokedMasked(b) : scores[b][p] > 0) =>
          \A b \in 1 .. batch_size : InvokedMasked(b)' \subseteq InvokedMasked(b)]_vars
C26_Witness ==
    /\ variant = "nar_masked"
    /\ n >= 3
    /\ \E b \in 1 .. batch_size :
         /\ len_list[b] >= 3
         /\ Cardinality(InvokedMasked(b)) = 1
         /\ \A p \in InvokedMasked(b) : scores[b][p] > 0

\* C27: every call that forward() routes to forward_nar_masked carries a
\* len_list, and the branch does not raise.
C27_NarMaskedHasLenList ==
    (variant = "v2" /\ route = "forward_nar_masked") => (len_given /\ pc # "raised")

\* the v2 items the CFG augmentation applies to
CfgItem(k) == task_list[k] \notin (TextTasks \cup {"len"})

\* C24: for an item that is neither a text task nor len, the conditional-drop
\* draw nulls the phonemes and the prompt, the prompt-drop draw nulls the
\* prompt only, the raw-text swap sets the phonemes to None only when the text
\* was not dropped; an item of a text task or of len keeps both.
C24_CfgAugmentation ==
    (variant = "v2" /\ pc \in {"validate", "handed"} /\ cfg_draws # << >>) =>
        \A k \in 1 .. Len(cfg_draws) :
            LET d == cfg_draws[k]
            IN IF CfgItem(k)
               THEN /\ proms_list[k] = (IF d.cond \/ d.prom THEN NoneProm ELSE in_proms[k])
                    /\ phns_list[k] =
                         (IF d.cond THEN "null_text"
                          ELSE IF d.raw /\ text_list[k] # "None" THEN "None" ELSE "phns")
                    /\ (phns_list[k] = "null_text" => proms_list[k] = NoneProm)
               ELSE phns_list[k] = "phns" /\ proms_list[k] = in_proms[k]
C24_Witness ==
    /\ variant = "v2"
    /\ pc = "handed"
    /\ CfgItem(1)
    /\ cfg_draws[1].cond /\ cfg_draws[1].raw /\ ~cfg_draws[1].prom
    /\ text_list[1] # "None"
    /\ in_proms[1] # NoneProm
    /\ phns_list[1] = "null_text"

\* the tokens of the training input of item k that differ from the caller's
Changed(k) ==
    {c \in (1 .. TrainLen) \X (1 .. Levels(resps_list[k])) :
        resps_list[k][c[1]][c[2]] # in_resps[k][c[1]][c[2]]}
InDropoutRange(q) ==
    token_dropout_rvq_levels[1] <= q /\ q <= token_dropout_rvq_levels[2]
\* every perturbation of a codec id stays in the clamp range, one step away at most
PerturbationBounded ==
    \A token \in 0 .. CodeMax : \A offset \in {1, -1} :
        /\ Perturbed(token, offset) \in TokenFloor .. TokenCeil
        /\ Perturbed(token, offset) - token \in {-1, 0, 1}

\* C25: token dropout changes only tokens below the item's quant level, by one
\* step at most and into [1, 1022], and leaves an item alone whose quant level
\* is outside the configured range or when the rate is 0.
C25_TokenDropout ==
    (variant = "v1" /\ pc \in {"validate", "handed"}) =>
        \A k \in 1 .. batch_size : k < idx =>
            /\ \A c \in Changed(k) : c[2] - 1 < quant_levels[k]
            /\ \A c \in Changed(k) :
                 /\ resps_list[k][c[1]][c[2]] \in TokenFloor .. TokenCeil
                 /\ resps_list[k][c[1]][c[2]] - in_resps[k][c[1]][c[2]] \in {-1, 1}
            /\ PerturbationBounded
            /\ (token_dropout_error = 0 \/ ~InDropoutRange(quant_levels[k])) => Changed(k) = {}
\* What the builder guarantees about C25: the same with the level random.choice
\* drew for the item in place of the level the item ends with.
C25_DrawnLevelDropout ==
    (variant = "v1" /\ pc \in {"validate", "handed"}) =>
        \A k \in 1 .. batch_size : k < idx =>
            /\ \A c \in Changed(k) : c[2] - 1 < drawn[k]
            /\ \A c \in Changed(k) :
                 /\ resps_list[k][c[1]][c[2]] \in TokenFloor .. TokenCeil
                 /\ resps_list[k][c[1]][c[2]] - in_resps[k][c[1]][c[2]] \in {-1, 1}
            /\ PerturbationBounded
            /\ (token_dropout_error = 0 \/ ~InDropoutRange(drawn[k])) => Changed(k) = {}
C25_DrawnLevelWitness ==
    /\ variant = "v1"
    /\ pc = "handed"
    /\ drawn[1] = TrainLevels - 1
    /\ Cardinality(Changed(1)) >= 2
    /\ \E c \in Changed(1) : in_resps[1][c[1]][c[2]] = CodeMax

\* C28: after a training call the caller's phoneme, prompt and response lists
\* hold what they held before it, and the caller's response tensors hold the
\* same tokens.
C28_CallerDataUntouched ==
    (variant \in {"v1", "v2"} /\ pc \in {"handed", "raised"} /\ in_resps # << >>) =>
        /\ caller.phns = [k \in 1 .. batch_size |-> "phns"]
        /\ caller.proms = in_proms
        /\ caller.resps = in_resps

\* the weight the layer would hold in exact arithmetic
ExactWeight == lora_log.base + (IF lora.merged THEN Delta(lora) ELSE 0)

\* C29 as stated: after any train() calls merged is true exactly when the last
\* call was train(False), the delta is in the weight at most once, and the
\* weight is the base weight plus the delta when merged and exactly the base
\* weight when not.
C29_Original ==
    (variant = "lora" /\ lora.merge_weights /\ lora_log.calls >= 1) =>
        /\ lora.merged = ~lora_log.mode
        /\ lora_log.adds - lora_log.subs = (IF lora.merged THEN 1 ELSE 0)
        /\ lora.weight = (IF lora.merged THEN RoundFloat(lora_log.base + Delta(lora))
                          ELSE lora_log.base)

\* C29 (as amended): merged is true exactly when the last call was
\* train(False), the delta is in the weight at most once, the weight is exactly
\* the base weight until the first merge, and afterwards it is the base weight
\* (plus the delta when merged) up to the rounding of the sums performed.
C29_MergeState ==
    (variant = "lora" /\ lora.merge_weights /\ lora_log.calls >= 1) =>
        /\ lora.merged = ~lora_log.mode
        /\ lora_log.adds - lora_log.subs = (IF lora.merged THEN 1 ELSE 0)
        /\ lora_log.adds = 0 => lora.weight = lora_log.base
        /\ 2 * Abs(lora.weight - ExactWeight)
              <= (lora_log.adds + lora_log.subs) * Ulp(Pow2(MantissaBits + 2))
C29_Witness ==
    /\ variant = "lora"
    /\ lora.merge_weights
    /\ lora_log.calls = MaxLoraCalls
    /\ lora_log.adds = 2
    /\ lora_log.subs = 2
    /\ lora.weight # lora_log.base

\* C30: train() saves a checkpoint at most once per global step, and when it
\* returns on a "quit" command, typed or fired by an event, with save_on_quit
\* enabled, last_save_step is the current global step.
C30_CheckpointOnQuit ==
    (variant = "trainer") =>
        /\ \A i \in DOMAIN tn.saves : \A j \in DOMAIN tn.saves :
             i # j => tn.saves[i] # tn.saves[j]
        /\ (pc = "returned" /\ tn.exit = "quit" /\ tn.save_on_quit) =>
             tn.last_save_step = tn.global_step
C30_Witness ==
    /\ variant = "trainer"
    /\ pc = "returned"
    /\ tn.exit = "quit"
    /\ tn.save_on_quit
    /\ tn.typed = ""
    /\ tn.global_step % SaveCkptEvery(tn) # 0
    /\ Len(tn.saves) >= 1
    /\ tn.saves[Len(tn.saves)] = tn.global_step

====
